---- MODULE Spec2Model ----
(***************************************************************************)
(* Path3DMesh (a chain of cubic Bezier segments with draggable helper      *)
(* spheres) and Path3DInspector (tree of segments, point editor, "Remove"  *)
(* context menu).                                                          *)
(*                                                                         *)
(* Vector3 values are exact rationals: a record [x, y, z, d] stands for    *)
(* (x/d, y/d, z/d) with d > 0 and gcd(x, y, z, d) = 1, so two vectors have *)
(* equal coordinates iff the records are equal.  JavaScript arrays are     *)
(* 0-based; the sequences here are 1-based, so array slot i is element     *)
(* i + 1 of the sequence.  Objects (curve descriptors, helper meshes) are  *)
(* identified by integer ids.                                              *)
(***************************************************************************)
EXTENDS Integers, Sequences, FiniteSets, TLC

VARIABLES
    mesh,          \* the Path3DMesh: a record of its fields (see Constructed)
    treeNodes,     \* Path3DInspector.state.curves
    selectedCurve, \* Path3DInspector.state.selectedCurve
    menu,          \* the tree node captured by the open context menu, or NoNode
    nbEdits,       \* number of control point writes done so far (bounded)
    lastOp         \* the operation that produced this state, with its inputs,
                   \* when it is one the properties name; "other" otherwise

vars == <<mesh, treeNodes, selectedCurve, menu, nbEdits, lastOp>>

Null == -1

----------------------------------------------------------------------------
(* Bounds of the model *)

\* control point writes (drags and inspector edits) in one behaviour
MaxEdits == 1
\* helper meshes created in one behaviour
MaxHelpers == 6
\* segments of an assigned path
MaxSegments == 3

----------------------------------------------------------------------------
(* Vector3 *)

Abs(a) == IF a < 0 THEN -a ELSE a

RECURSIVE GCD(_, _)
GCD(a, b) == IF b = 0 THEN a ELSE GCD(b, a % b)

\* the record of (x/d, y/d, z/d) in lowest terms
Vec(x, y, z, d) ==
    LET g == GCD(GCD(GCD(d, Abs(x)), Abs(y)), Abs(z))
    IN  [x |-> x \div g, y |-> y \div g, z |-> z \div g, d |-> d \div g]

\* Vector3.Zero()
Zero == Vec(0, 0, 0, 1)

\* the control points v0..v3 over their common denominator d: v.x[j + 1] is
\* the numerator of the x coordinate of vj
overCommonDenominator(v0, v1, v2, v3) ==
    LET m0 == v1.d * v2.d * v3.d
        m1 == v0.d * v2.d * v3.d
        m2 == v0.d * v1.d * v3.d
        m3 == v0.d * v1.d * v2.d
    IN  [x |-> <<m0 * v0.x, m1 * v1.x, m2 * v2.x, m3 * v3.x>>,
         y |-> <<m0 * v0.y, m1 * v1.y, m2 * v2.y, m3 * v3.y>>,
         z |-> <<m0 * v0.z, m1 * v1.z, m2 * v2.z, m3 * v3.z>>,
         d |-> m0 * v0.d]

\* The cubic Bezier point at t = i/n of the control points v:
\*   (1-t)^3 v0 + 3 t (1-t)^2 v1 + 3 t^2 (1-t) v2 + t^3 v3
BezierPoint(v, i, n) ==
    LET w0 == (n - i) * (n - i) * (n - i)
        w1 == 3 * i * (n - i) * (n - i)
        w2 == 3 * i * i * (n - i)
        w3 == i * i * i
    IN  Vec(w0 * v.x[1] + w1 * v.x[2] + w2 * v.x[3] + w3 * v.x[4],
            w0 * v.y[1] + w1 * v.y[2] + w2 * v.y[3] + w3 * v.y[4],
            w0 * v.z[1] + w1 * v.z[2] + w2 * v.z[3] + w3 * v.z[4],
            n * n * n * v.d)

\* the points at t = 0/n, 1/n, ..., last/n of the control points v
BezierPoints(v, n, last) == [k \in 1..(last + 1) |-> BezierPoint(v, k - 1, n)]

\* Curve3.CreateCubicBezier(v0, v1, v2, v3, nbPoints).getPoints():
\* nbPoints is raised to 4 when it is 3 or less, then the points at
\* t = 0/n, 1/n, ..., n/n are generated (n + 1 points).
CreateCubicBezier(v0, v1, v2, v3, nbPoints) ==
    LET n == IF nbPoints > 3 THEN nbPoints ELSE 4
    IN  BezierPoints(overCommonDenominator(v0, v1, v2, v3), n, n)

----------------------------------------------------------------------------
(* Sequence helpers *)

Range(s) == {s[k] : k \in 1..Len(s)}

\* Array.prototype.splice(i, 1) on a 0-based index: a negative i counts from
\* the end of the array and is clamped to 0; the slot is removed when it
\* exists, the array is left as it is otherwise.
Splice1(s, i) ==
    LET start == IF i >= 0 THEN i
                 ELSE IF Len(s) + i >= 0 THEN Len(s) + i ELSE 0
    IN  IF start < Len(s)
        THEN [k \in 1..(Len(s) - 1) |-> IF k <= start THEN s[k] ELSE s[k + 1]]
        ELSE s

RECURSIVE Concat(_)
Concat(ss) == IF ss = <<>> THEN <<>> ELSE Head(ss) \o Concat(Tail(ss))

----------------------------------------------------------------------------
(* Path3DMesh: curves                                                      *)
(*                                                                         *)
(* A mesh is a record m with the fields of Path3DMesh:                     *)
(*   curves      the curve descriptors                                     *)
(*   geometry    the line positions last given to setAllVerticesData       *)
(*   isVisible                                                             *)
(*   _helpers    the pool of helper ids                                    *)
(*   _helperRef  the sphere the instances are made of, or Null             *)
(* and with the helper meshes of the scene:                                *)
(*   nextHelper  helpers 0..nextHelper-1 have been created so far          *)
(*   disposed    the helpers on which dispose() has been called            *)
(*   position    helper -> helper.position                                 *)
(*   cbIndex     helper -> the index captured by its drag callback         *)
(*   thrown      TRUE when the last call ended with a TypeError            *)
(* A method is an operator from the mesh before to the mesh after.         *)

\* a curve descriptor (IPath3DMeshCurve); id is the identity of the object
Curve(id, v0, v1, v2, v3, nbPoints) ==
    [id |-> id, v0 |-> v0, v1 |-> v1, v2 |-> v2, v3 |-> v3,
     nbPoints |-> nbPoints, curve |-> <<>>]

\* the field initializer of Path3DMesh.curves
DefaultNbPoints == 10

DefaultCurves ==
    << Curve(0, Vec(0, 0, 0, 1), Vec(5, 5, -1, 2), Vec(3, 4, -2, 2), Vec(1, 1, 1, 1),
             DefaultNbPoints),
       Curve(1, Vec(1, 1, 1, 1), Vec(5, 5, -1, 2), Vec(3, 4, -2, 2), Vec(0, 3, 0, 1),
             DefaultNbPoints) >>

\* updateCurve writing the number of generated points back into nbPoints
updateCurve_StoresCount(c) ==
    [c EXCEPT !.curve = CreateCubicBezier(c.v0, c.v1, c.v2, c.v3, c.nbPoints),
              !.nbPoints = Len(CreateCubicBezier(c.v0, c.v1, c.v2, c.v3, c.nbPoints))]

\* updateCurve(curve)
updateCurve(c) ==
    [c EXCEPT !.curve = CreateCubicBezier(c.v0, c.v1, c.v2, c.v3, c.nbPoints)]

\* a method or a callback is entered: nothing is thrown yet
called(m) == [m EXCEPT !.thrown = FALSE]

\* buildCurves(): every cached curve is rebuilt
buildCurves(m) ==
    [m EXCEPT !.curves = [k \in 1..Len(@) |-> updateCurve(@[k])]]

\* the points of the cached curves, in order
curvePoints(cs) == Concat([k \in 1..Len(cs) |-> cs[k].curve])

\* getFinalCurvePoints() after its buildCurves(): the mesh, and the points of
\* its cached curves, which are returned
cachedPoints(m) == [mesh |-> m, points |-> curvePoints(m.curves)]

\* getFinalCurvePoints without the call of buildCurves()
getFinalCurvePoints_CachedOnly(m) == cachedPoints(m)

\* getFinalCurvePoints(): the mesh after buildCurves(), and the points returned
getFinalCurvePoints(m) == cachedPoints(buildCurves(m))

----------------------------------------------------------------------------
(* Path3DMesh: helpers *)

\* the helper meshes created so far
Created(m) == 0..(m.nextHelper - 1)

\* the helper meshes of the scene: created and not disposed
Alive(m) == Created(m) \ m.disposed

Last(s) == s[Len(s)]

\* this._helpers[index], Null for undefined
helperAt(m, index) ==
    IF index >= 0 /\ index < Len(m._helpers) THEN m._helpers[index + 1] ELSE Null

\* A new helper, pushed on the pool: the sphere (kept in _helperRef, at the
\* origin) when there is none, an instance of the sphere otherwise (created
\* where the sphere is)
createHelper(m) ==
    [m EXCEPT !._helperRef = IF @ = Null THEN m.nextHelper ELSE @,
              !.position = (m.nextHelper :>
                               IF m._helperRef = Null THEN Zero
                               ELSE m.position[m._helperRef]) @@ @,
              !._helpers = Append(@, m.nextHelper),
              !.nextHelper = @ + 1]

\* an existing helper, pushed on the pool once more
pushHelper(m, helper) == [m EXCEPT !._helpers = Append(@, helper)]

\* SceneFactory._SetMeshAsHelper(helper, callback) for the helper just pushed:
\* the callback captures index
setMeshAsHelper(m, index) ==
    [m EXCEPT !.cbIndex = (Last(m._helpers) :> index) @@ @]

\* _getHelper(index): takes this._helpers[index] or, when that slot is
\* undefined, creates a helper; pushes the helper on this._helpers in both
\* cases; registers the drag callback.  The helper returned is the last of
\* the pool.
_getHelper(m, index) ==
    setMeshAsHelper(IF helperAt(m, index) = Null
                    THEN createHelper(m)
                    ELSE pushHelper(m, helperAt(m, index)),
                    index)

\* s.position.copyFrom(points[k]) for the helper s just returned and a 0-based
\* k: a TypeError when points[k] is undefined
copyPosition(m, points, k) ==
    IF k >= 0 /\ k < Len(points)
    THEN [m EXCEPT !.position = (Last(m._helpers) :> points[k + 1]) @@ @,
                   !.thrown = FALSE]
    ELSE [m EXCEPT !.thrown = TRUE]

RECURSIVE placeHelpers(_, _, _, _)

\* the forEach of _showHelpers after the helper of curve `index` was placed:
\* it goes on with the next curve unless the copy has thrown
placeNextHelpers(m, points, index, curveStart) ==
    IF m.thrown THEN m
    ELSE placeHelpers(m, points, index + 1, curveStart + m.curves[index + 1].nbPoints)

\* the forEach of _showHelpers, from curve `index` on
placeHelpers(m, points, index, curveStart) ==
    IF index >= Len(m.curves)
    THEN m
    ELSE placeNextHelpers(copyPosition(_getHelper(m, index), points, curveStart),
                          points, index, curveStart)

\* "Add last point" of _showHelpers
placeLastHelper(m, points) ==
    copyPosition(_getHelper(m, Len(m.curves)), points, Len(points) - 1)

\* keptHelpers with the loop running while i >= this.curves.length
keptHelpers_FromLength(m) ==
    IF Len(m._helpers) > Len(m.curves) THEN Len(m.curves) ELSE Len(m._helpers)

\* the number of slots "Remove last helpers" keeps: the loop runs while
\* i > this.curves.length
keptHelpers(m) ==
    IF Len(m._helpers) > Len(m.curves) + 1 THEN Len(m.curves) + 1 ELSE Len(m._helpers)

\* "Remove last helpers" of _showHelpers: the slots after the kept ones, from
\* the last one down, are disposed and spliced out
removeLastHelpers(m) ==
    [m EXCEPT !.disposed = @ \cup {m._helpers[k] : k \in (keptHelpers(m) + 1)..Len(m._helpers)},
              !._helpers = SubSeq(@, 1, keptHelpers(m))]

\* _showHelpers() after "Add last point", which ends it when it has thrown
showHelpersAfterLast(m) == IF m.thrown THEN m ELSE removeLastHelpers(m)

\* _showHelpers() after the forEach, which ends it when it has thrown
showHelpersAfterLoop(m, points) ==
    IF m.thrown THEN m ELSE showHelpersAfterLast(placeLastHelper(m, points))

\* _showHelpers(), for the result r of getFinalCurvePoints()
showHelpersAt(r) ==
    showHelpersAfterLoop(placeHelpers(called(r.mesh), r.points, 0, 0), r.points)

\* _showHelpers()
_showHelpers(m) == showHelpersAt(getFinalCurvePoints(m))

\* _hideHelpers without `this._helpers = []`
_hideHelpers_KeepsPool(m) ==
    [m EXCEPT !.disposed = @ \cup Range(m._helpers),
              !._helperRef = Null,
              !.thrown = FALSE]

\* _hideHelpers(): disposes every helper of the pool, empties the pool and
\* drops the sphere
_hideHelpers(m) ==
    [m EXCEPT !.disposed = @ \cup Range(m._helpers),
              !._helpers = <<>>,
              !._helperRef = Null,
              !.thrown = FALSE]

\* setAllVerticesData for the result r of getFinalCurvePoints()
setAllVerticesData(r) == [r.mesh EXCEPT !.geometry = r.points]

\* the end of _updateCurveGeometry
refreshHelpers(m, updateHelpers) ==
    IF updateHelpers /\ m.isVisible THEN _showHelpers(m) ELSE m

\* _updateCurveGeometry(updateHelpers)
_updateCurveGeometry(m, updateHelpers) ==
    refreshHelpers(setAllVerticesData(getFinalCurvePoints(called(m))), updateHelpers)

\* updateCurveGeometry()
updateCurveGeometry(m) == _updateCurveGeometry(m, TRUE)

\* show()
show(m) == _showHelpers([m EXCEPT !.isVisible = TRUE])

\* hide without the call of _hideHelpers()
hide_FlagOnly(m) == [m EXCEPT !.isVisible = FALSE]

\* hide()
hide(m) == _hideHelpers([m EXCEPT !.isVisible = FALSE])

\* moveControlPoints with the end slots writing both ends of the path
moveControlPoints_BothEnds(m, index, p) ==
    IF index = Len(m.curves)
    THEN IF index = 0
         THEN [m EXCEPT !.thrown = TRUE]
         ELSE [m EXCEPT !.curves[index].v3 = p, !.curves[1].v0 = p]
    ELSE IF index > 0
    THEN IF index > Len(m.curves)
         THEN [m EXCEPT !.thrown = TRUE]
         ELSE [m EXCEPT !.curves[index + 1].v0 = p, !.curves[index].v3 = p]
    ELSE IF index < 0
    THEN [m EXCEPT !.thrown = TRUE]
    ELSE [m EXCEPT !.curves[1].v0 = p, !.curves[Len(m.curves)].v3 = p]

\* moveControlPoints with the joint branch writing the start point only
moveControlPoints_StartOnly(m, index, p) ==
    IF index = Len(m.curves)
    THEN IF index = 0
         THEN [m EXCEPT !.thrown = TRUE]
         ELSE [m EXCEPT !.curves[index].v3 = p]
    ELSE IF index > 0
    THEN IF index > Len(m.curves)
         THEN [m EXCEPT !.thrown = TRUE]
         ELSE [m EXCEPT !.curves[index + 1].v0 = p]
    ELSE IF index < 0
    THEN [m EXCEPT !.thrown = TRUE]
    ELSE [m EXCEPT !.curves[1].v0 = p]

\* The control point writes of the drag callback registered by
\* _getHelper(index), the helper being at p: v0.copyFrom(helper.position) and
\* v3.copyFrom(helper.position).  A TypeError when this.curves[...] is
\* undefined where it is dereferenced.
moveControlPoints(m, index, p) ==
    IF index = Len(m.curves)
    THEN IF index = 0
         THEN [m EXCEPT !.thrown = TRUE]
         ELSE [m EXCEPT !.curves[index].v3 = p]
    ELSE IF index > 0
    THEN IF index > Len(m.curves)
         THEN [m EXCEPT !.thrown = TRUE]
         ELSE [m EXCEPT !.curves[index + 1].v0 = p, !.curves[index].v3 = p]
    ELSE IF index < 0
    THEN [m EXCEPT !.thrown = TRUE]
    ELSE [m EXCEPT !.curves[1].v0 = p]

\* the end of the drag callback: this._updateCurveGeometry(false)
redrawAfterDrag(m) == _updateCurveGeometry(m, FALSE)

\* the drag callback after its control point writes, which end it when they
\* have thrown
dragCallbackAfterWrites(m) == IF m.thrown THEN m ELSE redrawAfterDrag(m)

\* The drag callback of helper h, the gizmo having moved h to p
dragCallback(m, h, p) ==
    dragCallbackAfterWrites(
        moveControlPoints(called([m EXCEPT !.position = (h :> p) @@ @]),
                          m.cbIndex[h], p))

----------------------------------------------------------------------------
(* Path3DInspector *)

\* a tree node (TreeNodeInfo<IPath3DMeshCurve>): id is the position of the
\* curve when the tree was generated, nodeData the curve object
NoNode == [id |-> Null, nodeData |-> Null]

\* _getTreeNodePointsInfo()
_getTreeNodePointsInfo(cs) ==
    [k \in 1..Len(cs) |-> [id |-> k - 1, nodeData |-> cs[k].id, isSelected |-> FALSE]]

NodeRef(node) == [id |-> node.id, nodeData |-> node.nodeData]

\* the control points the inspector of the selected point edits
PointProperties == {"v0", "v1", "v2", "v3"}

\* object[property].copyFrom(p) for the curve object c
setPointOf(c, prop, p) ==
    IF prop = "v0" THEN [c EXCEPT !.v0 = p]
    ELSE IF prop = "v1" THEN [c EXCEPT !.v1 = p]
    ELSE IF prop = "v2" THEN [c EXCEPT !.v2 = p]
    ELSE [c EXCEPT !.v3 = p]

\* the inspector field writes control point `prop` of the curve object `obj`,
\* wherever that object is in the path (nowhere: the path is left as it is)
setPoint(m, obj, prop, p) ==
    [m EXCEPT !.curves = [k \in 1..Len(@) |->
                             IF @[k].id = obj THEN setPointOf(@[k], prop, p) ELSE @[k]]]

\* spliceCurve as splice(i, 2)
spliceCurve_Two(m, i) == [m EXCEPT !.curves = Splice1(Splice1(@, i), i)]

\* this.selectedObject.curves.splice(i, 1)
spliceCurve(m, i) == [m EXCEPT !.curves = Splice1(@, i)]

\* the onClick of "Remove", on the mesh: splice, then updateCurveGeometry()
removeCurve(m, i) == updateCurveGeometry(spliceCurve(m, i))

\* noContextMenu as `curves.length < 1`
noContextMenu_BelowOne(m) == Len(m.curves) < 1

\* the guard of _handleCurveNodeContextMenu: no menu for a single segment
noContextMenu(m) == Len(m.curves) <= 1

----------------------------------------------------------------------------
(* Inputs *)

\* where a helper is dragged to, and what the inspector writes
Positions == {Vec(5, 5, 5, 1)}

\* sample counts of the segments of an assigned path
NbPointsChoices == {2, 5}

\* `nbPoints` is a plain number field: a host may leave a segment without
\* samples to generate
NoSamples == 0

\* the paths a host assigns to the public field `curves`: n segments that
\* join at distinct points, with sample counts that alternate between nb and
\* no samples
Anchor(i) == Vec(i, 2 * i, 0, 1)

NbPointsAt(k, nb) ==
    IF k % 2 = 1 THEN nb ELSE NoSamples

AssignedPath(n, nb) ==
    [k \in 1..n |-> Curve(k - 1, Anchor(k - 1), Vec(5, 5, -1, 2), Vec(3, 4, -2, 2),
                          Anchor(k), NbPointsAt(k, nb))]

\* the sample count of the odd segments of the path of n segments: one that
\* the sampler takes as it is when n is odd, one that it raises when n is even
NbPointsFor(n) == CHOOSE nb \in NbPointsChoices : (nb > 3) <=> (n % 2 = 1)

AssignedPaths == {AssignedPath(n, NbPointsFor(n)) : n \in 1..MaxSegments}

\* the shortest of them: the path of one segment and the path with one joint
ShortPaths == {AssignedPath(n, NbPointsFor(n)) : n \in 1..2}

----------------------------------------------------------------------------
(* State *)

Op(op, index, prop, pos) == [op |-> op, index |-> index, prop |-> prop, pos |-> pos]

\* the fields of a Path3DMesh before its constructor body runs
NewMesh(cs) ==
    [curves |-> cs, geometry |-> <<>>, isVisible |-> TRUE,
     _helpers |-> <<>>, _helperRef |-> Null,
     nextHelper |-> 0, disposed |-> {}, position |-> <<>>, cbIndex |-> <<>>,
     thrown |-> FALSE]

\* new Path3DMesh(name, scene): hide(), buildCurves(), updateCurveGeometry()
Path3DMesh(cs) == updateCurveGeometry(buildCurves(hide(NewMesh(cs))))

\* a Path3DMesh with `cs` as curves, then new Path3DInspector(props) for it
Constructed(cs) ==
    /\ mesh = Path3DMesh(cs)
    /\ treeNodes = _getTreeNodePointsInfo(mesh.curves)
    /\ selectedCurve = NoNode
    /\ menu = NoNode
    /\ nbEdits = 0
    /\ lastOp = Op("new", Null, "", Zero)

Init == Constructed(DefaultCurves)

\* mesh.curves = cs: the curve descriptors are replaced, their curves are
\* not built yet and the geometry is the one of the curves replaced
assignCurves(m, cs) == [m EXCEPT !.curves = cs]

\* new Path3DMesh(name, scene), a path assigned to its `curves`, then
\* new Path3DInspector(props) for it
Assigned(cs) ==
    /\ mesh = assignCurves(Path3DMesh(DefaultCurves), cs)
    /\ treeNodes = _getTreeNodePointsInfo(mesh.curves)
    /\ selectedCurve = NoNode
    /\ menu = NoNode
    /\ nbEdits = 0
    /\ lastOp = Op("new", Null, "", Zero)

InitAssigned == \E cs \in AssignedPaths : Assigned(cs)

InitShort == \E cs \in ShortPaths : Assigned(cs)

\* show()
Show ==
    /\ mesh' = show(mesh)
    /\ mesh'.nextHelper <= MaxHelpers
    /\ lastOp' = Op("show", Null, "", Zero)
    /\ UNCHANGED <<treeNodes, selectedCurve, menu, nbEdits>>

\* hide()
Hide ==
    /\ mesh' = hide(mesh)
    /\ lastOp' = Op("hide", Null, "", Zero)
    /\ UNCHANGED <<treeNodes, selectedCurve, menu, nbEdits>>

\* _hideHelpers(), which is public, called on its own
HideHelpers ==
    /\ mesh' = _hideHelpers(mesh)
    /\ lastOp' = Op("other", Null, "", Zero)
    /\ UNCHANGED <<treeNodes, selectedCurve, menu, nbEdits>>

\* buildCurves() called by the host of the mesh
BuildCurves ==
    /\ mesh' = buildCurves(called(mesh))
    /\ lastOp' = Op("other", Null, "", Zero)
    /\ UNCHANGED <<treeNodes, selectedCurve, menu, nbEdits>>

\* updateCurve(this.curves[k]) called by the host of the mesh
UpdateCurve(k) ==
    /\ k \in 0..(Len(mesh.curves) - 1)
    /\ mesh' = [called(mesh) EXCEPT !.curves[k + 1] = updateCurve(@)]
    /\ lastOp' = Op("other", Null, "", Zero)
    /\ UNCHANGED <<treeNodes, selectedCurve, menu, nbEdits>>

\* getFinalCurvePoints() called by the host of the mesh (the points it
\* returns are not kept)
GetFinalCurvePoints ==
    /\ mesh' = getFinalCurvePoints(called(mesh)).mesh
    /\ lastOp' = Op("other", Null, "", Zero)
    /\ UNCHANGED <<treeNodes, selectedCurve, menu, nbEdits>>

\* updateCurveGeometry() called by the host of the mesh
UpdateCurveGeometry ==
    /\ mesh' = updateCurveGeometry(mesh)
    /\ mesh'.nextHelper <= MaxHelpers
    /\ lastOp' = Op("update", Null, "", Zero)
    /\ UNCHANGED <<treeNodes, selectedCurve, menu, nbEdits>>

\* The user drags helper h, a mesh of the scene, to p: its drag callback runs
Drag(h, p) ==
    /\ nbEdits < MaxEdits
    /\ h \in Alive(mesh)
    /\ mesh' = dragCallback(mesh, h, p)
    /\ nbEdits' = nbEdits + 1
    /\ lastOp' = Op("drag", mesh.cbIndex[h], "", p)
    /\ UNCHANGED <<treeNodes, selectedCurve, menu>>

\* _handleCurveNodeClicked(node), node being slot k of the tree
HandleCurveNodeClicked(k) ==
    /\ k \in 0..(Len(treeNodes) - 1)
    /\ treeNodes' = [j \in 1..Len(treeNodes) |->
                        [treeNodes[j] EXCEPT !.isSelected = (j = k + 1)]]
    /\ selectedCurve' = NodeRef(treeNodes[k + 1])
    /\ lastOp' = Op("other", Null, "", Zero)
    /\ UNCHANGED <<mesh, menu, nbEdits>>

\* _handleCurveNodeContextMenu(node, ev), node being slot k of the tree:
\* returns at once for a single segment, shows the menu otherwise
\* (ContextMenu.show replaces a menu that is already open)
HandleCurveNodeContextMenu(k) ==
    /\ k \in 0..(Len(treeNodes) - 1)
    /\ menu' = IF noContextMenu(mesh) THEN menu ELSE NodeRef(treeNodes[k + 1])
    /\ lastOp' = Op("contextmenu", k, "", Zero)
    /\ UNCHANGED <<mesh, treeNodes, selectedCurve, nbEdits>>

\* the onClick of "Remove" without its setState
RemoveClick_NoSetState ==
    /\ menu # NoNode
    /\ mesh' = removeCurve(mesh, menu.id)
    /\ mesh'.nextHelper <= MaxHelpers
    /\ menu' = NoNode
    /\ lastOp' = Op("remove", menu.id, "", Zero)
    /\ UNCHANGED <<treeNodes, selectedCurve, nbEdits>>

\* onClick of the "Remove" item of the open menu: splice, updateCurveGeometry,
\* setState (not reached when updateCurveGeometry has thrown); the click
\* closes the menu
RemoveClick ==
    /\ menu # NoNode
    /\ mesh' = removeCurve(mesh, menu.id)
    /\ mesh'.nextHelper <= MaxHelpers
    /\ treeNodes' = IF mesh'.thrown THEN treeNodes
                    ELSE _getTreeNodePointsInfo(mesh'.curves)
    /\ selectedCurve' = IF mesh'.thrown THEN selectedCurve ELSE NoNode
    /\ menu' = NoNode
    /\ lastOp' = Op("remove", menu.id, "", Zero)
    /\ UNCHANGED nbEdits

\* the user closes the open menu without choosing "Remove"
DismissMenu ==
    /\ menu # NoNode
    /\ menu' = NoNode
    /\ lastOp' = Op("other", Null, "", Zero)
    /\ UNCHANGED <<mesh, treeNodes, selectedCurve, nbEdits>>

\* The user sets control point `prop` of the selected curve to p in the
\* inspector of the selected point; onChange calls updateCurveGeometry()
EditPoint(prop, p) ==
    /\ nbEdits < MaxEdits
    /\ selectedCurve # NoNode
    /\ mesh' = updateCurveGeometry(setPoint(mesh, selectedCurve.nodeData, prop, p))
    /\ mesh'.nextHelper <= MaxHelpers
    /\ nbEdits' = nbEdits + 1
    /\ lastOp' = Op("edit", selectedCurve.id, prop, p)
    /\ UNCHANGED <<treeNodes, selectedCurve, menu>>

\* The operations of the host on the mesh, of the user on the helpers, and
\* of the user in the inspector
Next ==
    \/ Show
    \/ Hide
    \/ HideHelpers
    \/ BuildCurves
    \/ \E k \in 0..(MaxSegments - 1) : UpdateCurve(k)
    \/ GetFinalCurvePoints
    \/ UpdateCurveGeometry
    \/ \E h \in 0..(MaxHelpers - 1), p \in Positions : Drag(h, p)
    \/ \E k \in 0..(MaxSegments - 1) : HandleCurveNodeClicked(k)
    \/ \E k \in 0..(MaxSegments - 1) : HandleCurveNodeContextMenu(k)
    \/ RemoveClick
    \/ DismissMenu
    \/ \E prop \in PointProperties, p \in Positions : EditPoint(prop, p)

\* the renderable as constructed, with the default path
Spec == Init /\ [][Next]_vars

\* the renderable constructed, then a path assigned to `curves`
SpecAssigned == InitAssigned /\ [][Next]_vars

\* the renderable constructed, then a short path assigned to `curves`
SpecShort == InitShort /\ [][Next]_vars

----------------------------------------------------------------------------
(* Properties *)

\* the point the drags and the edits of this model write
P5 == Vec(5, 5, 5, 1)

\* every segment ends where the next one starts
jointsContinuous(cs) == \A i \in 1..(Len(cs) - 1) : cs[i].v3 = cs[i + 1].v0

\* the helper in slot i of the pool is dragged to p (a step that lastOp
\* records as a drag)
DragSlot(i, p) ==
    /\ lastOp'.op = "drag"
    /\ helperAt(mesh, i) # Null
    /\ Drag(helperAt(mesh, i), p)

\* C1: in every reachable state, for every adjacent pair of segments,
\* curves[i].v3 has the coordinates of curves[i+1].v0.
C1_JointContinuity == jointsContinuous(mesh.curves)

\* C2: a step that drags the helper of a joint slot i (0 < i < segment count)
\* to p ends with curves[i-1].v3 = p and curves[i].v0 = p.
C2_JointDragSetsBoth ==
    [][\A i \in 1..(Len(mesh.curves) - 1), p \in Positions :
          DragSlot(i, p) => /\ mesh'.curves[i].v3 = p
                            /\ mesh'.curves[i + 1].v0 = p]_vars

\* a drag of the joint of a two segment path has moved both ends
C2_Witness ==
    /\ lastOp.op = "drag" /\ lastOp.index = 1
    /\ Len(mesh.curves) = 2
    /\ mesh.curves[1].v3 = P5 /\ mesh.curves[2].v0 = P5
    /\ mesh.curves[1].v0 = Anchor(0) /\ mesh.curves[2].v3 = Anchor(2)

\* C3: whenever the renderable is visible after a show(), an inspector
\* edit, a drag or a removal, and whenever it is visible with its helpers
\* allocated, the pool holds exactly segment count + 1 helpers.
C3_PoolSizeWhenVisible ==
    (/\ mesh.isVisible
     /\ \/ lastOp.op \in {"show", "edit", "drag", "remove"}
        \/ mesh._helperRef # Null)
        => Len(mesh._helpers) = Len(mesh.curves) + 1

\* a segment was removed while visible: one segment, two helpers
C3_Witness ==
    /\ lastOp.op = "remove" /\ mesh.isVisible
    /\ Len(mesh.curves) = 1 /\ Len(mesh._helpers) = 2

\* C4: while visible, a show() or an inspector edit (segment count unchanged)
\* leaves every slot 0..segment count with the helper it had, and none of
\* these helpers is disposed.
C4_HelpersReused ==
    [][(mesh.isVisible /\ (Show \/ \E prop \in PointProperties, p \in Positions :
                                      EditPoint(prop, p)))
          => \A k \in 1..(Len(mesh.curves) + 1) :
                /\ mesh'._helpers[k] = mesh._helpers[k]
                /\ mesh'._helpers[k] \notin mesh'.disposed]_vars

\* C5: a context menu request on a path of exactly one segment changes
\* nothing: the mesh (segments, control points, pool, visibility), the tree,
\* the selection and the menu are as before, and nothing is thrown.
C5_RemovalGuard ==
    [][\A k \in 0..(MaxSegments - 1) :
          (HandleCurveNodeContextMenu(k) /\ Len(mesh.curves) = 1)
          => /\ mesh' = mesh /\ ~mesh'.thrown
             /\ treeNodes' = treeNodes /\ selectedCurve' = selectedCurve
             /\ menu' = menu /\ menu' = NoNode]_vars

\* the context menu was requested on the only segment left, while visible
C5_Witness ==
    /\ lastOp.op = "contextmenu"
    /\ Len(mesh.curves) = 1 /\ mesh.isVisible
    /\ menu = NoNode

\* C6: the path never has zero segments.
C6_NeverEmpty == Len(mesh.curves) >= 1

\* "Remove" was clicked and one segment is left, the menu guard being
\* evaluated before a show() and the click coming after it
C6_Witness ==
    /\ lastOp.op = "remove" /\ Len(mesh.curves) = 1
    /\ treeNodes = _getTreeNodePointsInfo(mesh.curves)
    /\ mesh.nextHelper > 0

\* C7: a removal from a continuous path of two or more segments leaves a
\* continuous path.
C7_RemovalKeepsContinuity ==
    [][(RemoveClick /\ Len(mesh.curves) >= 2 /\ jointsContinuous(mesh.curves))
          => jointsContinuous(mesh'.curves)]_vars

\* C8: a removal while visible disposes exactly the helpers of the slots
\* after the new segment count, removes them from the pool, leaves the
\* helpers of the kept slots undisposed, and leaves no helper of the scene
\* with a callback index beyond the segment count.
C8_RemovalDisposesExactlyTheExtras ==
    [][(RemoveClick /\ mesh.isVisible)
          => LET n == Len(mesh'.curves)
             IN  /\ mesh'.disposed \ mesh.disposed =
                        {mesh._helpers[k] : k \in (n + 2)..Len(mesh._helpers)} \ mesh.disposed
                 /\ mesh'._helpers = SubSeq(mesh._helpers, 1, n + 1)
                 /\ \A k \in 1..(n + 1) : mesh'._helpers[k] \notin mesh'.disposed
                 /\ \A h \in Alive(mesh') : mesh'.cbIndex[h] <= n]_vars

\* C9: the renderable starts hidden with an empty pool; every show() ends
\* visible with segment count + 1 helpers in the pool, none of them
\* disposed; every hide() ends hidden, with every helper of the pool
\* disposed, the pool empty and _helperRef null.
C9_VisibilityStateMachine ==
    /\ ~mesh.isVisible /\ mesh._helpers = <<>>
    /\ [][/\ Show => /\ mesh'.isVisible
                     /\ Len(mesh'._helpers) = Len(mesh'.curves) + 1
                     /\ Range(mesh'._helpers) \cap mesh'.disposed = {}
          /\ Hide => /\ ~mesh'.isVisible
                     /\ Range(mesh._helpers) \subseteq mesh'.disposed
                     /\ mesh'._helpers = <<>>
                     /\ mesh'._helperRef = Null]_vars

\* C10: hide() leaves the segments (control points, sample counts, cached
\* points) and the rendered line as they are; a show() of a hidden renderable
\* leaves them as they are too, edits made while hidden included, and fills
\* the pool with segment count + 1 helpers none of which existed before.
C10_HideShowRecreatesHelpers ==
    [][/\ Hide => mesh'.curves = mesh.curves /\ mesh'.geometry = mesh.geometry
       /\ (~mesh.isVisible /\ lastOp'.op = "show" /\ Show)
          => /\ mesh'.curves = mesh.curves /\ mesh'.geometry = mesh.geometry
             /\ Len(mesh'._helpers) = Len(mesh.curves) + 1
             /\ Range(mesh'._helpers) \cap Created(mesh) = {}
             /\ Range(mesh'._helpers) \cap mesh'.disposed = {}]_vars

\* show(), hide(), an edit of the first start point while hidden, show():
\* the first helper of the old pool is where it was, the first helper of the
\* new pool is at the edited point
C10_Witness ==
    /\ lastOp.op = "show" /\ mesh.isVisible
    /\ Len(mesh.curves) = 2 /\ mesh.nextHelper = 6
    /\ mesh._helpers = <<3, 4, 5>> /\ mesh.disposed = {0, 1, 2}
    /\ mesh.curves[1].v0 = P5
    /\ mesh.position[0] = Zero /\ mesh.position[3] = P5

\* the number of points of the combined polyline that precede the samples of
\* segment i (segments counted from 0)
RECURSIVE pointsBefore(_, _)
pointsBefore(cs, i) ==
    IF i = 0 THEN 0 ELSE pointsBefore(cs, i - 1) + Len(cs[i].curve)

\* the handles have just been placed: the last operation was a show() or a
\* rebuild that refreshed the handles of a visible mesh, and it completed
handlesRefreshed ==
    /\ lastOp.op \in {"show", "remove", "edit", "update"}
    /\ mesh.isVisible /\ ~mesh.thrown
    /\ Len(mesh._helpers) = Len(mesh.curves) + 1

\* C11: after show() or any rebuild that refreshes the handles, handle i
\* (i < n) is at the point of the combined polyline that is the first sample
\* of segment i, and handle n is at the last point of the combined polyline.
C11_HandlesAtSegmentStarts ==
    handlesRefreshed
        => LET points == getFinalCurvePoints(mesh).points
               n == Len(mesh.curves)
           IN  /\ \A i \in 0..(n - 1) :
                     mesh.position[helperAt(mesh, i)]
                         = points[pointsBefore(mesh.curves, i) + 1]
               /\ mesh.position[helperAt(mesh, n)] = points[Len(points)]

\* the default path, unedited, has just been shown
defaultPathShown ==
    /\ lastOp.op = "show" /\ mesh.isVisible /\ ~mesh.thrown
    /\ mesh.curves = Path3DMesh(DefaultCurves).curves

\* C12: for the default path (2 segments of 10 samples), after show() the
\* combined polyline has 21 points and the handles of slots 0, 1 and 2 are
\* at the points of index 0, 10 and 20 of the combined polyline.
C12_DefaultPathSlots ==
    defaultPathShown
        => LET points == getFinalCurvePoints(mesh).points
           IN  /\ Len(points) = 2 * DefaultNbPoints + 1
               /\ Len(mesh._helpers) = 3
               /\ mesh.position[helperAt(mesh, 0)] = points[1]
               /\ mesh.position[helperAt(mesh, 1)] = points[DefaultNbPoints + 1]
               /\ mesh.position[helperAt(mesh, 2)] = points[2 * DefaultNbPoints + 1]

\* what a drag of slot i to p leaves of segment k (counted from 1): slot i
\* stands for the start point of segment i + 1 and the end point of segment i
dragFrame(old, new, k, i, p) ==
    /\ new.id = old.id
    /\ new.v1 = old.v1 /\ new.v2 = old.v2
    /\ new.nbPoints = old.nbPoints
    /\ new.v0 = IF k = i + 1 THEN p ELSE old.v0
    /\ new.v3 = IF k = i THEN p ELSE old.v3

\* C13: a drag of slot 0 changes only curves[0].v0, a drag of the last slot
\* only the v3 of the last segment, a drag of a joint slot i only
\* curves[i-1].v3 and curves[i].v0; every other control point, every sample
\* count, the segment list, the handle pool and the visibility flag are as
\* before the drag.
C13_DragFrame ==
    [][\A i \in 0..MaxSegments, p \in Positions :
          DragSlot(i, p)
              => /\ Len(mesh'.curves) = Len(mesh.curves)
                 /\ \A k \in 1..Len(mesh.curves) :
                       dragFrame(mesh.curves[k], mesh'.curves[k], k, i, p)
                 /\ mesh'._helpers = mesh._helpers
                 /\ mesh'.disposed = mesh.disposed
                 /\ mesh'.nextHelper = mesh.nextHelper
                 /\ mesh'.isVisible = mesh.isVisible]_vars

\* the last handle of a visible two segment path was dragged
C13_Witness ==
    /\ lastOp.op = "drag" /\ lastOp.index = 2
    /\ Len(mesh.curves) = 2 /\ mesh.isVisible
    /\ Len(mesh._helpers) = 3
    /\ mesh.curves[2].v3 = P5
    /\ mesh.curves[1].v0 = Anchor(0)
    /\ mesh.curves[1].v3 = Anchor(1) /\ mesh.curves[2].v0 = Anchor(1)

\* the sampling of the current control points of the current segments, in
\* order
currentSampling(m) ==
    Concat([k \in 1..Len(m.curves) |->
               CreateCubicBezier(m.curves[k].v0, m.curves[k].v1, m.curves[k].v2,
                                 m.curves[k].v3, m.curves[k].nbPoints)])

\* C14: the cached samples are never read stale: after every completed drag,
\* inspector edit, removal or show(), the rendered polyline is the sampling of
\* the current control points of the current segments, in order, and so are
\* the cached samples of every segment.
C14_SamplesCurrent ==
    ~mesh.thrown
        => /\ mesh.geometry = currentSampling(mesh)
           /\ curvePoints(mesh.curves) = currentSampling(mesh)

C14_Witness ==
    /\ lastOp.op = "edit" /\ lastOp.prop = "v1" /\ lastOp.index = 1
    /\ ~mesh.thrown
    /\ mesh.curves[2].v1 = P5
    /\ mesh.geometry = currentSampling(mesh)
    /\ mesh.geometry # Path3DMesh(DefaultCurves).geometry

\* the control points and sample counts of the segments, in order
controlPoints(cs) ==
    [k \in 1..Len(cs) |-> <<cs[k].id, cs[k].v0, cs[k].v1, cs[k].v2, cs[k].v3,
                             cs[k].nbPoints>>]

\* C15: two calls of getFinalCurvePoints() with no mutation in between return
\* sequences of equal length with equal coordinates at each index, and leave
\* the control points and the segment list as they were.
C15_FinalCurvePointsIdempotent ==
    LET first == getFinalCurvePoints(mesh)
        second == getFinalCurvePoints(first.mesh)
    IN  /\ Len(second.points) = Len(first.points)
        /\ \A k \in 1..Len(first.points) : second.points[k] = first.points[k]
        /\ controlPoints(first.mesh.curves) = controlPoints(mesh.curves)
        /\ controlPoints(second.mesh.curves) = controlPoints(mesh.curves)

\* a visible path whose first handle was dragged has been hidden and shown
\* again: updateCurveGeometry() of the drag and _showHelpers() of the show()
\* both called getFinalCurvePoints(), with no mutation in between
C15_Witness ==
    /\ lastOp.op = "show" /\ nbEdits = 1
    /\ Len(mesh.curves) = 2 /\ mesh.curves[1].v0 = P5
    /\ mesh.curves[1].nbPoints = 2 /\ mesh.curves[2].nbPoints = NoSamples
    /\ getFinalCurvePoints(mesh).points = mesh.geometry
    /\ mesh.position[helperAt(mesh, 0)] = mesh.geometry[1]
    /\ Len(mesh.geometry) = 10

\* C16 as stated: in every reachable state outside of a drag in progress,
\* Hidden or Visible, the handle pool has one handle more than there are
\* segments.
C16_PoolSizeAlways == Len(mesh._helpers) = Len(mesh.curves) + 1

\* C16, amended: in every reachable state outside of a drag in progress the
\* handle pool has one handle more than there are segments while the handles
\* are allocated, which they are only when the mesh is Visible, and is empty
\* otherwise: whenever the mesh is Hidden, and after _hideHelpers().
C16_PoolSizeByVisibility ==
    /\ Len(mesh._helpers) = IF mesh._helperRef # Null THEN Len(mesh.curves) + 1 ELSE 0
    /\ ~mesh.isVisible => mesh._helperRef = Null

C16_Witness ==
    /\ lastOp.op = "hide" /\ ~mesh.isVisible
    /\ mesh.nextHelper = 3 /\ mesh.disposed = {0, 1, 2}
    /\ Len(mesh.curves) = 2
    /\ mesh._helpers = <<>>

\* the sum of count + 1 over a sequence of counts
RECURSIVE pointsOf(_)
pointsOf(counts) ==
    IF counts = <<>> THEN 0 ELSE Head(counts) + 1 + pointsOf(Tail(counts))

\* the sample sequence of segment c runs from its start point to its end point
fromStartToEnd(c) == c.curve[1] = c.v0 /\ c.curve[Len(c.curve)] = c.v3

\* C17: every segment with a sample count of 1 or more has, after a rebuild,
\* exactly count + 1 samples, the first its v0 and the last its v3; so the
\* combined polyline has the sum of count + 1 points, in segment order.
C17_CountPlusOneSamples ==
    LET count(c) == c.nbPoints
        cs == buildCurves(mesh).curves
        points == getFinalCurvePoints(mesh).points
    IN  /\ \A k \in 1..Len(cs) :
              cs[k].nbPoints >= 1
                  => Len(cs[k].curve) = count(cs[k]) + 1 /\ fromStartToEnd(cs[k])
        /\ (\A k \in 1..Len(cs) : cs[k].nbPoints >= 1)
              => /\ Len(points) = pointsOf([k \in 1..Len(cs) |-> count(cs[k])])
                 /\ points = curvePoints(cs)

\* C18: a rebuild of a segment whose sample count is less than 1 is
\* rejected: the cached samples of the segment are left as they were and
\* nothing else changes.
C18_InvalidCountRejected ==
    [][\A k \in 1..Len(mesh.curves) :
          (/\ mesh.curves[k].nbPoints < 1
           /\ mesh.curves[k].curve # <<>>
           /\ k <= Len(mesh'.curves)
           /\ mesh'.curves[k].id = mesh.curves[k].id)
              => mesh'.curves[k].curve = mesh.curves[k].curve]_vars

\* node stands for a segment that is in the path, at the index the node has
nodeOfPath(node) ==
    /\ node.id \in 0..(Len(mesh.curves) - 1)
    /\ mesh.curves[node.id + 1].id = node.nodeData

\* C19: inspector edits and removals always target a segment that is in the
\* path: the tree has exactly one node per segment, with ids 0..n-1 in order,
\* each bound to the segment at that index; after a removal the tree is
\* regenerated and no segment is selected; so the index given to splice is
\* within 0..curves.length-1 and the segment an inspector edit writes is in
\* the path.
C19_InspectorTargetsPath ==
    /\ Len(treeNodes) = Len(mesh.curves)
    /\ \A k \in 1..Len(treeNodes) :
          treeNodes[k].id = k - 1 /\ treeNodes[k].nodeData = mesh.curves[k].id
    /\ selectedCurve # NoNode => nodeOfPath(selectedCurve)
    /\ menu # NoNode => nodeOfPath(menu)
    /\ lastOp.op = "remove"
          => /\ selectedCurve = NoNode
             /\ treeNodes = _getTreeNodePointsInfo(mesh.curves)

\* segment 1 was selected and edited in the inspector, then segment 0 was
\* removed
C19_Witness ==
    /\ lastOp.op = "remove" /\ lastOp.index = 0
    /\ nbEdits = 1
    /\ Len(mesh.curves) = 1 /\ mesh.curves[1].id = 1 /\ mesh.curves[1].v1 = P5
    /\ treeNodes = <<[id |-> 0, nodeData |-> 1, isSelected |-> FALSE]>>
    /\ selectedCurve = NoNode /\ menu = NoNode

====
